---------------------------- MODULE Spec2Model ----------------------------
(***************************************************************************)
(* A model of script/coverity_parser.py: the rule classifier, the two      *)
(* group filters, the Issues one-shot stream with its totals accumulator,  *)
(* and the sort key.                                                       *)
(*                                                                         *)
(* Strings.  A Python string is modelled as the sequence of its pieces.    *)
(* The pieces of an alphabet are chosen so that no piece is a prefix of    *)
(* another one; a sequence of pieces then denotes exactly one string and   *)
(* "is a prefix of" on sequences is str.startswith on the strings.  Flat   *)
(* gives the Python string itself, which is what the membership tests of   *)
(* the source compare.  The sort key, whose order depends on single        *)
(* characters, uses sequences of code points instead (see make_key).       *)
(***************************************************************************)
EXTENDS Integers, Sequences, FiniteSets, TLC

VARIABLES
    \* ---- class Issues ----
    report,      \* the JSON document behind self.path
    show_all,    \* self.show_all
    iterated,    \* self.iterated
    totals,      \* self.totals (a defaultdict(int): only the keys touched exist)
    gen,         \* self.gen: None, or the generator made by _gen()
    iters,       \* the generator objects made by the calls of __iter__
    out,         \* the records the consumers have received, each with its origin
    counted,     \* the groups whose totals were incremented, in order
    err,         \* the exception the last call raised, or None
    \* ---- _classify_checker, called on its own ----
    checker,
    classification,
    \* ---- make_key, called on two records ----
    recA,
    recB,
    keyA,
    keyB

streamVars == <<report, show_all, iterated, totals, gen, iters, out, counted, err>>
classifyVars == <<checker, classification>>
keyVars == <<recA, recB, keyA, keyB>>
vars == <<streamVars, classifyVars, keyVars>>

None == "None"
Pending == "pending"

\* ------------------------------------------------------------------ bounds
MaxGroups == 2     \* groups of a report
MaxIters == 2      \* calls of __iter__ on one Issues object
MaxTokens == 5     \* pieces of a checker string given to _classify_checker
MaxKeyLen == 2     \* characters of a file name given to make_key

\* ----------------------------------------------------------------- strings
RECURSIVE Flat(_)
Flat(s) == IF s = <<>> THEN "" ELSE Head(s) \o Flat(Tail(s))

startswith(s, prefix) ==
    /\ Len(prefix) <= Len(s)
    /\ SubSeq(s, 1, Len(prefix)) = prefix

RECURSIVE lstrip(_, _)
lstrip(s, c) == IF s # <<>> /\ Head(s) = c THEN lstrip(Tail(s), c) ELSE s

SeqsUpTo(S, n) == UNION {[1..k -> S] : k \in 0..n}

\* ------------------------------------------------------------------ tables
_rule_exclusions == {
    "MISRA C-2012 Rule 2.4",
    "MISRA C-2012 Rule 2.5",
    "MISRA C-2012 Rule 2.7",
    "MISRA C-2012 Rule 5.1",
    "MISRA C-2012 Rule 5.8",
    "MISRA C-2012 Rule 8.6",
    "MISRA C-2012 Rule 8.7",
    "MISRA C-2012 Rule 11.4",
    "MISRA C-2012 Rule 11.5",
    "MISRA C-2012 Rule 15.1",
    "MISRA C-2012 Rule 15.5",
    "MISRA C-2012 Rule 15.6",
    "MISRA C-2012 Rule 16.1",
    "MISRA C-2012 Rule 16.3",
    "MISRA C-2012 Rule 17.1",
    "MISRA C-2012 Rule 21.6",
    "MISRA C-2012 Directive 4.6",
    "MISRA C-2012 Directive 4.8",
    "MISRA C-2012 Directive 4.9" }

_dir_required == {"1.1", "2.1", "3.1", "4.1", "4.3", "4.7", "4.10", "4.11",
    "4.12", "4.14"}

_dir_advisory == {"4.2", "4.4", "4.5", "4.6", "4.8", "4.9", "4.13"}

_rule_mandatory == {"9.1", "9.2", "9.3", "12.5", "13.6", "17.3", "17.4",
    "17.6", "19.1", "21.13", "21.17", "21.18", "21.19", "21.20", "22.2", "22.5",
    "22.6"}

_rule_required == {"1.1", "1.3", "2.1", "2.2", "3.1", "3.2", "4.1", "5.1",
    "5.2", "5.3", "5.4", "5.5", "5.6", "5.7", "5.8", "6.1", "6.2", "7.1", "7.2",
    "7.3", "7.4", "8.1", "8.2", "8.3", "8.4", "8.5", "8.6", "8.7", "8.8",
    "8.10", "8.12", "8.14", "9.2", "9.3", "9.4", "9.5", "10.1", "10.2", "10.3",
    "10.4", "10.6", "10.7", "10.8", "11.1", "11.2", "11.3", "11.6", "11.7",
    "11.8", "11.9", "12.2", "13.1", "13.2", "13.5", "14.1", "14.2", "14.3",
    "14.4", "15.2", "15.3", "15.6", "15.7", "16.1", "16.2", "16.3", "16.4",
    "16.5", "16.6", "16.7", "17.1", "17.2", "17.7", "18.1", "18.2", "18.3",
    "18.6", "18.7", "18.8", "20.3", "20.4", "20.6", "20.7", "20.8", "20.9",
    "20.11", "20.12", "20.13", "20.14", "21.1", "21.2", "21.3", "21.4", "21.5",
    "21.6", "21.7", "21.8", "21.9", "21.10", "21.11", "21.14", "21.15", "21.16",
    "22.1", "22.3", "22.4", "22.7", "22.8", "22.9", "22.10"}

_rule_advisory == {"1.2", "2.3", "2.4", "2.5", "2.6", "2.7", "4.2", "5.9",
    "8.9", "8.11", "8.13", "10.5", "11.4", "11.5", "12.1", "12.3", "12.4",
    "13.3", "13.4", "15.1", "15.4", "15.5", "17.5", "17.8", "18.4", "18.5",
    "19.2", "20.1", "20.2", "20.5", "20.10", "21.12"}

\* A dict keeps its insertion order: .items() visits the pairs as written.
_checker_lookup ==
    [ Directive |-> << <<"required", _dir_required>>,
                       <<"advisory", _dir_advisory>> >>,
      Rule      |-> << <<"mandatory", _rule_mandatory>>,
                       <<"required", _rule_required>>,
                       <<"advisory", _rule_advisory>> >> ]

\* -------------------------------------------------------------- classifier
\* The pieces of a checker string, by the character classes of _checker_re.
Digits == {"0", "1", "2", "3", "4", "5", "6", "7", "8", "9"}
Letters == {"MISRA", "C", "Rule", "Directive", "Foo", "RESOURCE_LEAK"}
IsWord(t) == t \in Letters \cup Digits      \* \w
IsNumber(t) == t \in Digits \cup {"."}      \* [\d\.]

\* _checker_re.search: the place of the one space of a match of
\* (?P<kind>\w+) (?P<number>[\d\.]+)$, or 0 when the pattern matches nowhere.
\* Everything after the space is the number and reaches the end of the
\* string, so at most one place qualifies.
MatchSpace(c) ==
    LET ok == { s \in 2..(Len(c) - 1) :
                  /\ c[s] = " "
                  /\ IsWord(c[s - 1])
                  /\ \A j \in (s + 1)..Len(c) : IsNumber(c[j]) }
    IN  IF ok = {} THEN 0 ELSE CHOOSE s \in ok : TRUE

\* search returns the leftmost match: kind is the whole run of \w before the
\* space.
KindStart(c, s) ==
    CHOOSE i \in 1..(s - 1) :
        /\ \A j \in i..(s - 1) : IsWord(c[j])
        /\ (i = 1 \/ ~IsWord(c[i - 1]))

group_kind(c) == Flat(SubSeq(c, KindStart(c, MatchSpace(c)), MatchSpace(c) - 1))
group_number(c) == Flat(SubSeq(c, MatchSpace(c) + 1, Len(c)))

KeyError == "KeyError"

\* The loop over _checker_lookup[kind].items(): the first set holding number.
FirstLabel(pairs, number) ==
    LET hits == { i \in 1..Len(pairs) : number \in pairs[i][2] }
    IN  IF hits = {} THEN "unknown"
        ELSE pairs[CHOOSE i \in hits : \A j \in hits : i <= j][1]

\* _classify_checker; a kind that is no key of _checker_lookup raises KeyError.
_classify_checker(c) ==
    IF MatchSpace(c) = 0 THEN "unknown"
    ELSE IF group_kind(c) \notin DOMAIN _checker_lookup THEN KeyError
    ELSE FirstLabel(_checker_lookup[group_kind(c)], group_number(c))


\* ------------------------------------------------------ directory policy
\* Pieces of a path; no piece is a prefix of another.
IGNORED_DIRS == {
    <<"lib/", "libfdt">>,
    <<"include/", "lib/", "libfdt">>,
    <<"lib/", "compiler-rt">>,
    <<"lib/", "zlib">>,
    <<"include/", "lib/", "zlib">> }

\* The loop of filter_groups_v1: the file is stripped of leading "/" first.
InIgnoredDirV1(file) ==
    \E skip_dir \in IGNORED_DIRS : startswith(lstrip(file, "/"), skip_dir)

\* The loop of filter_groups_v7: the file is tested as it is.
InIgnoredDirV7(file) ==
    \E skip_dir \in IGNORED_DIRS : startswith(file, skip_dir)

\* ----------------------------------------------------------- the records
\* An optional value (a key that may be absent, a variable that may be
\* unbound) is the empty sequence or the one-element sequence of the value.
Absent == <<>>
Some(v) == <<v>>

\* Return a copy of the original issue description, file stripped, cid added.
_new_issue(cid, orig_issue) ==
    [ cid            |-> cid,
      file           |-> lstrip(orig_issue.file, "/"),
      line           |-> orig_issue.mainEventLineNumber,
      checker        |-> orig_issue.checker,
      classification |-> _classify_checker(orig_issue.checker),
      description    |-> orig_issue.mainEventDescription ]

_new_issue_v7(cid, chk, issue) ==
    [ cid            |-> cid,
      file           |-> issue.strippedFilePathname,
      line           |-> issue.lineNumber,
      checker        |-> chk,
      classification |-> _classify_checker(chk),
      description    |-> issue.eventDescription ]

\* ------------------------------------------------------------ the filters
filter_groups_v1(group, showAll) ==
    IF group.triage.action = "Ignore" THEN FALSE
    ELSE IF Flat(group.occurrences[1].checker) \in _rule_exclusions THEN FALSE
    ELSE IF InIgnoredDirV1(group.occurrences[1].file) THEN FALSE
    ELSE IF ~showAll THEN ~group.presentInComparisonSnapshot
    ELSE TRUE

\* group.get("checker_name") is None when the key is absent, and None is in
\* no list of strings.
ExcludedV7(group) ==
    /\ group.checker_name # Absent
    /\ Flat(group.checker_name[1]) \in _rule_exclusions

\* filter_groups_v7 without its test of the exclusion list.
filter_groups_v7_no_exclusions(group) ==
    ~InIgnoredDirV7(group.strippedMainEventFilePathname)

filter_groups_v7(group) ==
    IF ExcludedV7(group) THEN FALSE
    ELSE IF InIgnoredDirV7(group.strippedMainEventFilePathname) THEN FALSE
    ELSE TRUE

\* ------------------------------------------------------------- the totals
\* self.totals[key] += 1 on a defaultdict(int).
Inc(t, key) ==
    IF key \in DOMAIN t THEN [t EXCEPT ![key] = @ + 1] ELSE t @@ (key :> 1)

\* --------------------------------------------------------- the generators
\* A generator object: st is "None" (self.gen is None), "suspended" (made,
\* or stopped at a yield) or "finished" (returned or raised); g is the group
\* it is emitting (0 before the first), k the records yielded of that group,
\* occurrence the local variable of iter_issues_v1.
NoGen == [st |-> "None", kind |-> "-", g |-> 0, k |-> 0, occurrence |-> Absent]
NewGen(kind) == [NoGen EXCEPT !.st = "suspended", !.kind = kind]

\* What one resumption of a generator does to the object it belongs to.
Outcome(gn, tot, cnt, yielded, e) ==
    [gen |-> gn, totals |-> tot, counted |-> cnt, yielded |-> yielded, err |-> e]

Raised(gn, tot, cnt, e) ==
    Outcome([gn EXCEPT !.st = "finished"], tot, cnt, <<>>, e)

Yield(gn, j, k, rec, tot, cnt) ==
    Outcome([gn EXCEPT !.g = j, !.k = k], tot, cnt,
            <<[grp |-> j, idx |-> k, rec |-> rec]>>, None)

\* iter_issues_v7 from the head of its outer loop, at group j.
RECURSIVE LoopV7(_, _, _, _, _)
LoopV7(rep, gn, j, tot, cnt) ==
    IF rep.issues = Absent THEN Raised(gn, tot, cnt, KeyError)
    ELSE IF j > Len(rep.issues[1])
    THEN Outcome([gn EXCEPT !.st = "finished", !.g = j, !.k = 0], tot, cnt, <<>>, None)
    ELSE LET issue_group == rep.issues[1][j] IN
         IF ~filter_groups_v7(issue_group) THEN LoopV7(rep, gn, j + 1, tot, cnt)
         ELSE IF issue_group.checkerName = Absent THEN Raised(gn, tot, cnt, KeyError)
         ELSE IF _classify_checker(issue_group.checkerName[1]) = KeyError
         THEN Raised(gn, tot, cnt, KeyError)
         ELSE LET tot2 == Inc(Inc(tot, _classify_checker(issue_group.checkerName[1])),
                              "total")
                  cnt2 == Append(cnt, j)
              IN  IF issue_group.events = <<>>
                  THEN LoopV7(rep, gn, j + 1, tot2, cnt2)
                  ELSE Yield(gn, j, 1,
                             _new_issue_v7(issue_group.cid, issue_group.checkerName[1],
                                           issue_group.events[1]),
                             tot2, cnt2)

\* One resumption of iter_issues_v7: the next event of the group being
\* emitted, or the outer loop from the next group.
iter_issues_v7(rep, gn, tot, cnt) ==
    IF gn.g >= 1 /\ gn.k < Len(rep.issues[1][gn.g].events)
    THEN LET issue_group == rep.issues[1][gn.g] IN
         Yield(gn, gn.g, gn.k + 1,
               _new_issue_v7(issue_group.cid, issue_group.checkerName[1],
                             issue_group.events[gn.k + 1]),
               tot, cnt)
    ELSE LoopV7(rep, gn, gn.g + 1, tot, cnt)

\* iter_issues_v1 from the head of its outer loop, at group j.  The totals
\* line reads the local variable occurrence, which only the inner loop binds.
RECURSIVE LoopV1(_, _, _, _, _, _)
LoopV1(rep, showAll, gn, j, tot, cnt) ==
    IF rep.issueInfo = Absent THEN Raised(gn, tot, cnt, KeyError)
    ELSE IF j > Len(rep.issueInfo[1])
    THEN Outcome([gn EXCEPT !.st = "finished", !.g = j, !.k = 0], tot, cnt, <<>>, None)
    ELSE LET issue_group == rep.issueInfo[1][j] IN
         IF ~filter_groups_v1(issue_group, showAll)
         THEN LoopV1(rep, showAll, gn, j + 1, tot, cnt)
         ELSE IF gn.occurrence = Absent THEN Raised(gn, tot, cnt, "UnboundLocalError")
         ELSE IF "checkerName" \notin DOMAIN gn.occurrence[1]
         THEN Raised(gn, tot, cnt, KeyError)
         ELSE IF _classify_checker(gn.occurrence[1].checkerName) = KeyError
         THEN Raised(gn, tot, cnt, KeyError)
         ELSE LET tot2 == Inc(Inc(tot, _classify_checker(gn.occurrence[1].checkerName)),
                              "total")
                  cnt2 == Append(cnt, j)
                  occurrence == issue_group.occurrences[1]
              IN  IF _classify_checker(occurrence.checker) = KeyError
                  THEN Raised(gn, tot2, cnt2, KeyError)
                  ELSE Yield([gn EXCEPT !.occurrence = Some(occurrence)], j, 1,
                             _new_issue(issue_group.cid, occurrence), tot2, cnt2)

\* One resumption of iter_issues_v1.
iter_issues_v1(rep, showAll, gn, tot, cnt) ==
    IF gn.g >= 1 /\ gn.k < Len(rep.issueInfo[1][gn.g].occurrences)
    THEN LET issue_group == rep.issueInfo[1][gn.g]
             occurrence == issue_group.occurrences[gn.k + 1]
         IN  IF _classify_checker(occurrence.checker) = KeyError
             THEN Raised(gn, tot, cnt, KeyError)
             ELSE Yield([gn EXCEPT !.occurrence = Some(occurrence)], gn.g, gn.k + 1,
                        _new_issue(issue_group.cid, occurrence), tot, cnt)
    ELSE LoopV1(rep, showAll, gn, gn.g + 1, tot, cnt)


\* ----------------------------------------------------------- class Issues
\* A JSON value of the formatVersion key.
NoVersion == [type |-> "absent", num |-> 0, str |-> ""]
IntVersion(n) == [type |-> "int", num |-> n, str |-> ""]
StrVersion(t) == [type |-> "str", num |-> 0, str |-> t]

\* report.get("formatVersion", 0)
get_formatVersion(rep) ==
    IF rep.formatVersion.type = "absent" THEN IntVersion(0) ELSE rep.formatVersion

\* _gen: the generator object for the report's schema; no code of the
\* generator runs yet.  A str compared with 7 raises TypeError.
_gen(rep) ==
    IF get_formatVersion(rep).type # "int"
    THEN [gen |-> NoGen, err |-> "TypeError"]
    ELSE IF get_formatVersion(rep).num >= 7
    THEN [gen |-> NewGen("v7"), err |-> None]
    ELSE [gen |-> NewGen("v1"), err |-> None]

\* __iter__ making a generator on every call.
gen_is_None_always(g) == TRUE

\* The test of __iter__: self.gen is None.
gen_is_None(g) == g.st = "None"

\* next(self.gen), as "yield from" calls it.
Resume(rep, showAll, gn, tot, cnt) ==
    IF gn.st = "finished" THEN Outcome(gn, tot, cnt, <<>>, None)
    ELSE IF gn.kind = "v7" THEN iter_issues_v7(rep, gn, tot, cnt)
    ELSE iter_issues_v1(rep, showAll, gn, tot, cnt)

\* Issues.__init__ (the report is the document at self.path).
IssuesInit(rep, showAll) ==
    /\ report = rep
    /\ show_all = showAll
    /\ iterated = FALSE
    /\ totals = [key \in {} |-> 0]
    /\ gen = NoGen
    /\ iters = <<>>
    /\ out = <<>>
    /\ counted = <<>>
    /\ err = None

\* iter(issues): __iter__ is a generator function, so the call only makes a
\* generator object.
Iter ==
    /\ Len(iters) < MaxIters
    /\ iters' = Append(iters, "created")
    /\ UNCHANGED <<report, show_all, iterated, totals, gen, out, counted, err>>
    /\ UNCHANGED <<classifyVars, keyVars>>

\* next() on the i-th of these objects: the body of __iter__ up to its next
\* yield.  An object that has not run yet makes self.gen if there is none.
NextOn(i) ==
    /\ iters[i] # "done"
    /\ \E made \in { IF iters[i] = "created" /\ gen_is_None(gen)
                     THEN _gen(report)
                     ELSE [gen |-> gen, err |-> None] } :
         IF made.err # None
         THEN /\ iters' = [iters EXCEPT ![i] = "done"]
              /\ err' = made.err
              /\ UNCHANGED <<gen, totals, out, counted>>
         ELSE \E r \in { Resume(report, show_all, made.gen, totals, counted) } :
              /\ gen' = r.gen
              /\ totals' = r.totals
              /\ counted' = r.counted
              /\ out' = out \o r.yielded
              /\ err' = r.err
              /\ iters' = [iters EXCEPT
                             ![i] = IF r.yielded # <<>> THEN "running" ELSE "done"]
    /\ UNCHANGED <<report, show_all, iterated>>
    /\ UNCHANGED <<classifyVars, keyVars>>

\* ------------------------------------------------------------- the inputs
CkMandatory ==
    <<"MISRA", " ", "C", "-", "2", "0", "1", "2", " ", "Rule", " ", "9", ".", "1">>
CkExcluded ==
    <<"MISRA", " ", "C", "-", "2", "0", "1", "2", " ", "Rule", " ", "2", ".", "4">>
CkOtherKind == <<"Foo", " ", "1", ".", "2">>

FileKept == <<"src/", "x.c">>
FileIgnored == <<"lib/", "libfdt", "/", "x.c">>
FileIgnoredSlash == <<"/", "lib/", "libfdt", "/", "x.c">>

Occurrence(chk, file, line, description) ==
    [ checker |-> chk, file |-> file, mainEventLineNumber |-> line,
      mainEventDescription |-> description ]

V1Group(action, present, occurrences) ==
    [ cid |-> 0, triage |-> [action |-> action],
      presentInComparisonSnapshot |-> present, occurrences |-> occurrences ]

GroupsV1 == {
    V1Group("Undecided", FALSE, << Occurrence(CkMandatory, FileKept, 10, "first"),
                                   Occurrence(CkMandatory, FileKept, 2, "second") >>),
    V1Group("Undecided", FALSE, << Occurrence(CkExcluded, FileKept, 3, "unused") >>),
    V1Group("Undecided", TRUE, << Occurrence(CkMandatory, FileKept, 4, "old") >>),
    V1Group("Ignore", FALSE, << Occurrence(CkMandatory, FileKept, 5, "triaged") >>),
    V1Group("Undecided", FALSE, << Occurrence(CkMandatory, FileIgnored, 6, "fdt") >>),
    V1Group("Undecided", FALSE,
            << Occurrence(CkMandatory, FileIgnoredSlash, 6, "fdt") >>) }

Event(file, line, description) ==
    [ strippedFilePathname |-> file, lineNumber |-> line,
      eventDescription |-> description ]

V7Group(checker_name, checkerName, file, events) ==
    [ cid |-> 0, checker_name |-> checker_name, checkerName |-> checkerName,
      strippedMainEventFilePathname |-> file, events |-> events ]

GroupsV7 == {
    \* groups of the documented shape: the checker under checker_name only
    V7Group(Some(CkMandatory), Absent, FileKept, << Event(FileKept, 10, "first") >>),
    V7Group(Some(CkExcluded), Absent, FileKept, << Event(FileKept, 3, "unused") >>),
    \* groups with both spellings of the checker key
    V7Group(Some(CkMandatory), Some(CkMandatory), FileKept,
            << Event(FileKept, 10, "first"), Event(FileKept, 2, "second") >>),
    V7Group(Some(CkMandatory), Some(CkMandatory), FileKept, <<>>),
    V7Group(Some(CkMandatory), Some(CkMandatory), FileIgnored,
            << Event(FileIgnored, 6, "fdt") >>),
    V7Group(Some(CkMandatory), Some(CkMandatory), FileIgnoredSlash,
            << Event(FileIgnoredSlash, 6, "fdt") >>),
    V7Group(Some(CkExcluded), Some(CkExcluded), FileKept,
            << Event(FileKept, 3, "unused") >>),
    V7Group(Some(CkOtherKind), Some(CkOtherKind), FileKept,
            << Event(FileKept, 7, "other") >>),
    \* a group with the key the generator reads only
    V7Group(Absent, Some(CkExcluded), FileKept, << Event(FileKept, 8, "bypass") >>) }

\* The i-th group of a report has cid 100 + i.
WithCids(groups) == [i \in DOMAIN groups |-> [groups[i] EXCEPT !.cid = 100 + i]]

FormatVersions ==
    {NoVersion, IntVersion(-1), IntVersion(6), IntVersion(7), IntVersion(8),
     StrVersion("7")}

LegacyReports ==
    { [formatVersion |-> fv, issueInfo |-> Some(WithCids(groups)), issues |-> Absent] :
        fv \in FormatVersions, groups \in SeqsUpTo(GroupsV1, MaxGroups) }

CurrentReports ==
    { [formatVersion |-> fv, issueInfo |-> Absent, issues |-> Some(WithCids(groups))] :
        fv \in {IntVersion(7), IntVersion(8)}, groups \in SeqsUpTo(GroupsV7, MaxGroups) }

Reports == LegacyReports \cup CurrentReports

\* ---------------------------------------------------------------- make_key
\* Here a string is the sequence of its code points, and < on strings is
\* Python's: the first differing code point decides, a proper prefix is less.
RECURSIVE StrLess(_, _)
StrLess(x, y) ==
    IF y = <<>> THEN FALSE
    ELSE IF x = <<>> THEN TRUE
    ELSE IF Head(x) # Head(y) THEN Head(x) < Head(y)
    ELSE StrLess(Tail(x), Tail(y))

\* str(n) of an int: its decimal digits, after "-" when negative.
RECURSIVE str(_)
str(n) ==
    IF n < 0 THEN <<45>> \o str(0 - n)
    ELSE IF n < 10 THEN <<48 + n>>
    ELSE str(n \div 10) \o <<48 + (n % 10)>>

\* s.zfill(width): "0"s on the left (after a sign) up to width characters;
\* a string that is already that long is returned as it is.
zfill(s, width) ==
    LET zeros == [i \in 1..(width - Len(s)) |-> 48] IN
    IF Len(s) >= width THEN s
    ELSE IF s # <<>> /\ Head(s) \in {43, 45} THEN <<Head(s)>> \o zeros \o Tail(s)
    ELSE zeros \o s

\* make_key without the zero padding.
make_key_unpadded(i) == i.file \o str(i.line) \o i.checker \o str(i.cid)

make_key(i) ==
    i.file \o zfill(str(i.line), 5) \o i.checker \o zfill(str(i.cid), 5)

\* ------------------------------------------- the two functions on their own
EmptyReport == [formatVersion |-> NoVersion, issueInfo |-> Some(<<>>), issues |-> Absent]
StreamIdle == IssuesInit(EmptyReport, FALSE)
ClassifyIdle == checker = <<>> /\ classification = Pending
KeyIdle == recA = <<>> /\ recB = <<>> /\ keyA = <<>> /\ keyB = <<>>

CheckerPieces == {"Rule", "Directive", "Foo", " ", ".", "1", "2", "4", "9"}

\* classification = _classify_checker(checker)
Classify ==
    /\ classification = Pending
    /\ classification' = _classify_checker(checker)
    /\ UNCHANGED <<checker, streamVars, keyVars>>

\* "0" and "a"
KeyChars == {48, 97}
KeyCheckers == {<<97>>, <<97, 48>>, <<98>>}
KeyLines == {2, 10, 100000}
KeyCids == {7, 100000}
KeyRecords ==
    { [file |-> f, line |-> l, checker |-> c, cid |-> d] :
        f \in SeqsUpTo(KeyChars, MaxKeyLen) \ {<<>>}, l \in KeyLines,
        c \in KeyCheckers, d \in KeyCids }

\* keyA, keyB = make_key(recA), make_key(recB), as sorted() computes them.
MakeKeys ==
    /\ keyA = <<>>
    /\ keyA' = make_key(recA)
    /\ keyB' = make_key(recB)
    /\ UNCHANGED <<recA, recB, streamVars, classifyVars>>

\* ------------------------------------------------------ the specifications
Init ==
    /\ \E rep \in Reports, showAll \in BOOLEAN : IssuesInit(rep, showAll)
    /\ ClassifyIdle
    /\ KeyIdle

Next ==
    \/ Iter
    \/ \E i \in 1..Len(iters) : NextOn(i)

Spec == Init /\ [][Next]_vars

InitClassify ==
    /\ checker \in SeqsUpTo(CheckerPieces, MaxTokens)
    /\ classification = Pending
    /\ StreamIdle
    /\ KeyIdle

NextClassify == Classify

SpecClassify == InitClassify /\ [][NextClassify]_vars

InitKey ==
    /\ recA \in KeyRecords
    /\ recB \in KeyRecords
    /\ keyA = <<>>
    /\ keyB = <<>>
    /\ StreamIdle
    /\ ClassifyIdle

NextKey == MakeKeys

SpecKey == InitKey /\ [][NextKey]_vars

\* -------------------------------------------------------------- the claims
Labels == {"mandatory", "required", "advisory", "unknown"}
TotalOf(key) == IF key \in DOMAIN totals THEN totals[key] ELSE 0

\* The records received from occurrence or event k of group j.
From(j, k) == { n \in DOMAIN out : out[n].grp = j /\ out[n].idx = k }
Times(j) == Cardinality({ n \in DOMAIN counted : counted[n] = j })

LegacyDrained == gen.kind = "v1" /\ gen.st = "finished" /\ report.issueInfo # Absent
CurrentDrained == gen.kind = "v7" /\ gen.st = "finished" /\ report.issues # Absent

\* C1: legacy schema, after a full drain: one record per occurrence of every
\* kept group, each with the group's cid; totals["total"] is the number of
\* kept groups and totals[c] the number of kept groups whose first
\* occurrence's checker classifies as c.
C1_LegacyDrainCounts ==
    LegacyDrained =>
        LET groups == report.issueInfo[1]
            kept == { j \in DOMAIN groups : filter_groups_v1(groups[j], show_all) }
            occs(j) == Len(groups[j].occurrences)
        IN  /\ Len(out) = Cardinality(UNION { {<<j, k>> : k \in 1..occs(j)} : j \in kept })
            /\ \A j \in kept : \A k \in 1..occs(j) :
                 /\ Cardinality(From(j, k)) = 1
                 /\ \A n \in From(j, k) : out[n].rec.cid = groups[j].cid
            /\ TotalOf("total") = Cardinality(kept)
            /\ \A c \in Labels :
                 TotalOf(c) = Cardinality({ j \in kept :
                     _classify_checker(groups[j].occurrences[1].checker) = c })

\* C2: current schema with groups of the documented shape (the checker under
\* the key checker_name, no key checkerName), after a full drain: every kept group incremented totals["total"] and
\* totals[classify(checker_name)] exactly once, and there is exactly one
\* record per event of each kept group, with the group's cid and checker_name
\* and the event's own file, line and description.
C2_CurrentDrainCounts ==
    (/\ CurrentDrained
     /\ \A j \in DOMAIN report.issues[1] :
          /\ report.issues[1][j].checker_name # Absent
          /\ report.issues[1][j].checkerName = Absent)
    =>  LET groups == report.issues[1]
            kept == { j \in DOMAIN groups : filter_groups_v7(groups[j]) }
            events(j) == Len(groups[j].events)
        IN  /\ Len(out) = Cardinality(UNION { {<<j, k>> : k \in 1..events(j)} : j \in kept })
            /\ \A j \in kept : Times(j) = 1
            /\ TotalOf("total") = Cardinality(kept)
            /\ \A c \in Labels :
                 TotalOf(c) = Cardinality({ j \in kept :
                     _classify_checker(groups[j].checker_name[1]) = c })
            /\ \A j \in kept : \A k \in 1..events(j) :
                 /\ Cardinality(From(j, k)) = 1
                 /\ \A n \in From(j, k) :
                      /\ out[n].rec.cid = groups[j].cid
                      /\ out[n].rec.checker = groups[j].checker_name[1]
                      /\ out[n].rec.file = groups[j].events[k].strippedFilePathname
                      /\ out[n].rec.line = groups[j].events[k].lineNumber
                      /\ out[n].rec.description = groups[j].events[k].eventDescription

\* C3: _classify_checker never fails; it returns the label of the set when
\* the string ends in "<Kind> <number>" with Kind one of Directive, Rule and
\* number in exactly one set of that kind, and unknown for every other string.
C3_SetsHolding(kind, number) ==
    { i \in 1..Len(_checker_lookup[kind]) : number \in _checker_lookup[kind][i][2] }

C3_Expected(c) ==
    LET ends == { s \in 2..(Len(c) - 1) :
                    /\ c[s] = " "
                    /\ c[s - 1] \in DOMAIN _checker_lookup
                    /\ Cardinality(C3_SetsHolding(c[s - 1],
                                                  Flat(SubSeq(c, s + 1, Len(c))))) = 1 }
    IN  IF ends = {} THEN "unknown"
        ELSE LET s == CHOOSE x \in ends : TRUE
                 i == CHOOSE x \in C3_SetsHolding(c[s - 1],
                                                  Flat(SubSeq(c, s + 1, Len(c)))) : TRUE
             IN  _checker_lookup[c[s - 1]][i][1]

C3_ClassifyTotal ==
    classification # Pending =>
        /\ classification # KeyError
        /\ classification = C3_Expected(checker)

\* C4: current schema: a group whose checker_name is in the rule-exclusion
\* list yields no record and increments no total; a drained report all of
\* whose groups are such yields no record at all and leaves totals empty.
C4_ExcludedGroupDropped ==
    (gen.kind = "v7" /\ report.issues # Absent) =>
        LET groups == report.issues[1]
            excluded == { j \in DOMAIN groups :
                            /\ groups[j].checker_name # Absent
                            /\ Flat(groups[j].checker_name[1]) \in _rule_exclusions }
        IN  /\ \A n \in DOMAIN out : out[n].grp \notin excluded
            /\ \A n \in DOMAIN counted : counted[n] \notin excluded
            /\ (excluded = DOMAIN groups) => (out = <<>> /\ DOMAIN totals = {})

\* C4, witness: a drained current-schema report with an excluded group next
\* to a group that yielded records.
C4_Witness ==
    /\ CurrentDrained
    /\ err = None
    /\ out # <<>>
    /\ \E j \in DOMAIN report.issues[1] : ExcludedV7(report.issues[1][j])

\* C5: legacy schema, a group present in the comparison snapshot and not
\* otherwise filtered: drained with show_all false there is no record of it,
\* drained with show_all true there is one record per occurrence of it.
C5_BaselineSuppression ==
    LegacyDrained =>
        \A j \in DOMAIN report.issueInfo[1] :
            LET group == report.issueInfo[1][j] IN
            (/\ group.presentInComparisonSnapshot
             /\ group.triage.action # "Ignore"
             /\ Flat(group.occurrences[1].checker) \notin _rule_exclusions
             /\ ~InIgnoredDirV1(group.occurrences[1].file))
            =>  /\ ~show_all => \A n \in DOMAIN out : out[n].grp # j
                /\ show_all => \A k \in 1..Len(group.occurrences) :
                                   Cardinality(From(j, k)) = 1

\* C6: once the traversal has ended, each group the filter of the report's
\* schema has judged is judged the same as that group with "/" put before
\* its file.
C6_LeadingSeparatorInvariance ==
    /\ LegacyDrained =>
         \A j \in DOMAIN report.issueInfo[1] :
             LET group == report.issueInfo[1][j] IN
             filter_groups_v1(group, show_all) =
                 filter_groups_v1(
                     [group EXCEPT !.occurrences[1].file = <<"/">> \o @], show_all)
    /\ CurrentDrained =>
         \A j \in DOMAIN report.issues[1] :
             LET group == report.issues[1][j] IN
             filter_groups_v7(group) =
                 filter_groups_v7(
                     [group EXCEPT !.strippedMainEventFilePathname = <<"/">> \o @])

\* C8: once some iteration of the object has ended, no later step yields a
\* record, changes totals or touches the generator; and no occurrence or
\* event is ever yielded twice, no group counted twice.
C8_AtMostOnce ==
    /\ \A m, n \in DOMAIN out :
         (out[m].grp = out[n].grp /\ out[m].idx = out[n].idx) => m = n
    /\ \A m, n \in DOMAIN counted : counted[m] = counted[n] => m = n

C8_FullyIterated == \E i \in DOMAIN iters : iters[i] = "done"

C8_OneShot ==
    /\ []C8_AtMostOnce
    /\ [][C8_FullyIterated =>
            (out' = out /\ totals' = totals /\ counted' = counted /\ gen' = gen)]_vars

\* C8, witness: two iterations of one object have ended, and records were
\* yielded and a group counted.
C8_Witness ==
    /\ iters = <<"done", "done">>
    /\ gen.st = "finished"
    /\ err = None
    /\ Len(out) >= 2
    /\ counted # <<>>

\* C9: the first next() never raises TypeError and makes the generator of
\* the current schema when formatVersion is a number >= 7, of the legacy
\* schema for every other value and when the key is absent.
C9_SchemaDetectionTotal ==
    (\E i \in DOMAIN iters : iters[i] # "created") =>
        /\ err # "TypeError"
        /\ gen.kind = IF report.formatVersion.type = "int"
                         /\ report.formatVersion.num >= 7
                      THEN "v7" ELSE "v1"

\* C10: the sets of one kind are pairwise disjoint: the number of a
\* classified checker of a known kind is in at most one set of that kind, so
\* no classification rests on the order of the lookup.
C10_TablesDisjoint ==
    (/\ classification # Pending
     /\ MatchSpace(checker) # 0
     /\ group_kind(checker) \in DOMAIN _checker_lookup)
    => Cardinality(C3_SetsHolding(group_kind(checker), group_number(checker))) <= 1

\* (file, line, checker, cid) of x before that of y: files and checkers as
\* strings, lines and cids as numbers.
C7_TupleLess(x, y) ==
    \/ StrLess(x.file, y.file)
    \/ /\ x.file = y.file
       /\ \/ x.line < y.line
          \/ /\ x.line = y.line
             /\ \/ StrLess(x.checker, y.checker)
                \/ x.checker = y.checker /\ x.cid < y.cid

C7_Comparable(x, y) == x = y \/ (~startswith(x, y) /\ ~startswith(y, x))

=============================================================================
